---- MODULE Spec2Model ----
(***************************************************************************)
(* The KDL parser of src/parser/kdl.js as a state machine: parse(text)     *)
(* tokenizes the text with the multi-mode lexer, returns the lexer's       *)
(* errors when there are any, and otherwise runs the grammar rules         *)
(* document / nodes / node / propertyOrArgument / nodeChildren /           *)
(* lineSpace / nodeTerminator over the token vector.                       *)
(*                                                                         *)
(* A text is a sequence of abstract characters (Alphabet).  Offsets are    *)
(* the 0-based offsets of the code; text[o + 1] is the character at        *)
(* offset o.  Raw and multi-line strings, keyword literals, floats and     *)
(* escapes lie outside the alphabet.                                       *)
(***************************************************************************)
EXTENDS Integers, Sequences, FiniteSets, TLC

VARIABLES
    text,        \* the argument of parse
    pc,          \* position of the call: "lex", "parse" or "done"
    offset,      \* lexer.tokenize: offset of the next character
    modeStack,   \* lexer.tokenize: the lexer's mode stack
    lexTokens,   \* lexer.tokenize: tokens matched so far
    lexErrors,   \* lexer.tokenize: errors collected so far
    input,       \* parser.input: the token vector handed to the parser
    idx,         \* parser: number of tokens consumed
    stack,       \* parser: the rule invocations in progress (nodes / node)
    errors,      \* parser.errors, and result.errors when the call is done
    output,      \* result.output
    results      \* the results of the calls of parse made before this one

vars == <<text, pc, offset, modeStack, lexTokens, lexErrors, input, idx, stack,
          errors, output, results>>

(***************************************************************************)
(* Bounds of the model                                                     *)
(***************************************************************************)
MaxLen == 3        \* every text of at most MaxLen characters is an input
MaxPhrases == 2    \* a node name followed by at most MaxPhrases phrases is an input
MaxCalls == 3      \* parse is called at most MaxCalls times in a row
MaxLiveLen == 1    \* every text of at most MaxLiveLen characters is run to its end
MaxItems == 3      \* a document of at most MaxItems top-level nodes is an input

(***************************************************************************)
(* Lexer                                                                   *)
(***************************************************************************)
Letters == {"a", "b"}
Digits == {"1"}
Alphabet ==
    Letters \cup Digits \cup
    {" ", "\n", ";", "=", "{", "}", "(", ")", "/-", "//", "/*", "*/", "\"", "bom"}

\* tokens.defaultMode
defaultMode == "main"

\* tokens.modes: the token types of each mode, in matching order
modes ==
    [main |-> <<"WhiteSpace", "BOM", "NewLine", "BlockComment", "LineComment",
                "OpenMultiLineComment", "Boolean", "Null", "FloatKeyword",
                "MultiLineRawString", "RawString", "Integer", "Float", "SemiColon",
                "Equals", "LeftBrace", "RightBrace", "LeftParenthesis",
                "RightParenthesis", "EscLine", "MultiLineOpenQuote", "OpenQuote",
                "Identifier">>,
     multilineComment |-> <<"OpenMultiLineComment", "CloseMultiLineComment",
                            "MultiLineCommentContent">>,
     string |-> <<"Unicode", "Escape", "UnicodeEscape", "WhiteSpaceEscape",
                  "CloseQuote">>,
     multilineString |-> <<"MultiLineCloseQuote", "MultiLineSingleQuote", "NewLine",
                           "WhiteSpace", "Unicode", "Escape", "UnicodeEscape",
                           "WhiteSpaceEscape">>]

\* length of the longest run of characters of S in t starting at offset o
RECURSIVE Run(_, _, _)
Run(t, o, S) ==
    IF o < Len(t) /\ t[o + 1] \in S THEN 1 + Run(t, o + 1, S) ELSE 0

\* one character c at offset o
One(t, o, c) ==
    IF o < Len(t) /\ t[o + 1] = c THEN 1 ELSE 0

\* the characters of a line comment, of the content of a multi-line comment, of
\* the content of a string and of an identifier after its first letter
LineCommentChars == Alphabet \ {"\n"}
CommentContentChars == Alphabet \ {"/*", "*/"}
UnicodeChars == Alphabet \ {"\"", "\n"}
IdentifierChars == Letters \cup Digits

\* the pattern of a token type: the length it matches at offset o (0: no match)
\* the token types whose patterns need characters outside the alphabet
OutsideAlphabet ==
    {"Boolean", "Null", "FloatKeyword", "MultiLineRawString", "RawString", "Float",
     "EscLine", "MultiLineOpenQuote", "Escape", "UnicodeEscape", "WhiteSpaceEscape",
     "MultiLineCloseQuote", "MultiLineSingleQuote"}

PatternLen(type, t, o) ==
    CASE type \in OutsideAlphabet -> 0
      [] type = "WhiteSpace" -> Run(t, o, {" "})
      [] type = "BOM" -> One(t, o, "bom")
      [] type = "NewLine" -> One(t, o, "\n")
      [] type = "BlockComment" -> One(t, o, "/-")
      [] type = "LineComment" ->
            IF One(t, o, "//") = 1 THEN 1 + Run(t, o + 1, LineCommentChars) ELSE 0
      [] type = "OpenMultiLineComment" -> One(t, o, "/*")
      [] type = "CloseMultiLineComment" -> One(t, o, "*/")
      [] type = "MultiLineCommentContent" -> Run(t, o, CommentContentChars)
      [] type = "Integer" -> Run(t, o, Digits)
      [] type = "SemiColon" -> One(t, o, ";")
      [] type = "Equals" -> One(t, o, "=")
      [] type = "LeftBrace" -> One(t, o, "{")
      [] type = "RightBrace" -> One(t, o, "}")
      [] type = "LeftParenthesis" -> One(t, o, "(")
      [] type = "RightParenthesis" -> One(t, o, ")")
      [] type = "OpenQuote" -> One(t, o, "\"")
      [] type = "CloseQuote" -> One(t, o, "\"")
      [] type = "Unicode" -> Run(t, o, UnicodeChars)
      [] type = "Identifier" ->
            IF o < Len(t) /\ t[o + 1] \in Letters
            THEN 1 + Run(t, o + 1, IdentifierChars)
            ELSE 0
      [] OTHER -> 0

\* the mode a token type pushes ("" when it pushes none), and whether it pops
PushMode(type) ==
    CASE type = "OpenMultiLineComment" -> "multilineComment"
      [] type = "OpenQuote" -> "string"
      [] type = "MultiLineOpenQuote" -> "multilineString"
      [] OTHER -> ""

PopMode(type) ==
    type \in {"CloseMultiLineComment", "CloseQuote", "MultiLineCloseQuote"}

\* index in the mode's list of the first token type that matches at offset o
\* (0 when none does)
RECURSIVE FirstMatch(_, _, _, _)
FirstMatch(mode, t, o, j) ==
    IF j > Len(modes[mode]) THEN 0
    ELSE IF PatternLen(modes[mode][j], t, o) > 0 THEN j
    ELSE FirstMatch(mode, t, o, j + 1)

\* the lexer's line and column (both 1-based) of offset o
RECURSIVE LineOf(_, _)
LineOf(t, o) ==
    IF o = 0 THEN 1
    ELSE LineOf(t, o - 1) + (IF t[o] = "\n" THEN 1 ELSE 0)

RECURSIVE ColumnOf(_, _)
ColumnOf(t, o) ==
    IF o = 0 \/ t[o] = "\n" THEN 1 ELSE ColumnOf(t, o - 1) + 1

\* error recovery of the lexer: drop characters, at least one, until a pattern
\* of the mode matches or the text ends; the offset reached
RECURSIVE Resync(_, _, _)
Resync(mode, t, o) ==
    IF o >= Len(t) \/ FirstMatch(mode, t, o, 1) > 0 THEN o
    ELSE Resync(mode, t, o + 1)

Top(s) == s[Len(s)]
Pop(s) == SubSeq(s, 1, Len(s) - 1)

Token(type, t, o, n) ==
    [tokenType |-> type, image |-> SubSeq(t, o + 1, o + n),
     startOffset |-> o, endOffset |-> o + n - 1]

LexError(t, o, n) ==
    [offset |-> o, line |-> LineOf(t, o), column |-> ColumnOf(t, o), length |-> n,
     message |-> <<"unexpected character", t[o + 1], "at offset", o, "skipped", n>>]

\* LexMatched that keeps one level per mode: an opener in its own mode pushes
\* nothing
LexMatchedFlat(t, o, ms, type, n) ==
    [offset |-> o + n,
     token |-> Token(type, t, o, n),
     modeStack |->
         IF PopMode(type) /\ Len(ms) > 1 THEN Pop(ms)
         ELSE IF PushMode(type) # "" /\ PushMode(type) # Top(ms)
         THEN Append(ms, PushMode(type))
         ELSE ms,
     popFailed |-> PopMode(type) /\ Len(ms) = 1]

\* lexer.tokenize, one iteration of its loop at the current offset: the first
\* pattern of the current mode that matches yields a token and applies its
\* push or pop; when none matches, the characters up to the next match are
\* dropped and reported as one error
LexMatched(t, o, ms, type, n) ==
    [offset |-> o + n,
     token |-> Token(type, t, o, n),
     modeStack |->
         IF PopMode(type) /\ Len(ms) > 1 THEN Pop(ms)
         ELSE IF PushMode(type) # "" THEN Append(ms, PushMode(type))
         ELSE ms,
     popFailed |-> PopMode(type) /\ Len(ms) = 1]

(***************************************************************************)
(* Values of the document model.  A JS string, a JS number (kept as its    *)
(* literal text), an array and undefined.                                  *)
(***************************************************************************)
Undefined == [t |-> "undefined", v |-> <<>>]
Str(image) == [t |-> "string", v |-> image]
Num(image) == [t |-> "number", v |-> image]
Arr(elements) == [t |-> "array", v |-> elements]

(***************************************************************************)
(* Grammar engine.  A rule is an operator of the token vector and the      *)
(* number i of tokens consumed; it yields [ok, idx, val]: whether it       *)
(* succeeded, the tokens consumed after it (or, on failure, before the     *)
(* offending token), and its value (on failure the exception's name).      *)
(***************************************************************************)
EOF == [tokenType |-> "EOF", image |-> <<>>, startOffset |-> -1, endOffset |-> -1]

\* no token (undefined)
NoToken == [tokenType |-> "undefined", image |-> <<>>, startOffset |-> -1, endOffset |-> -1]

\* LA(1) after i tokens, and its type
LATok(toks, i) == IF i < Len(toks) THEN toks[i + 1] ELSE EOF
LA1(toks, i) == LATok(toks, i).tokenType

Ok(i, v) == [ok |-> TRUE, idx |-> i, val |-> v]
Fail(i, e) == [ok |-> FALSE, idx |-> i, val |-> e]

\* a rule's steps in sequence: F continues from the result r of the step before,
\* and a failed step is the failure of the rule (r is taken from a set so that
\* it is evaluated once)
Then(r, F(_)) == CHOOSE v \in {IF y.ok THEN F(y) ELSE y : y \in {r}} : TRUE

\* CONSUME for which end of input can be consumed only once
CONSUMEOnce(toks, i, type) ==
    IF LA1(toks, i) = type /\ i <= Len(toks) THEN Ok(i + 1, LATok(toks, i).image)
    ELSE Fail(i, "MismatchedTokenException")

CONSUME(toks, i, type) ==
    IF LA1(toks, i) = type THEN Ok(i + 1, LATok(toks, i).image)
    ELSE Fail(i, "MismatchedTokenException")

\* the tokens that can start each rule
FirstNodeSpace == {"WhiteSpace", "OpenMultiLineComment"}
FirstLineSpace == FirstNodeSpace \cup {"NewLine", "LineComment"}
FirstString == {"Identifier", "OpenQuote"}
FirstNonString == {"Integer"}
FirstTag == {"LeftParenthesis"}
FirstPropertyOrArgument == FirstTag \cup FirstNonString \cup FirstString
FirstNode == FirstTag \cup FirstString

RECURSIVE multilineComment(_, _)
RECURSIVE multilineCommentBody(_, _)
\* OpenMultiLineComment, then contents and nested comments, then
\* CloseMultiLineComment
multilineComment(toks, i) ==
    Then(CONSUME(toks, i, "OpenMultiLineComment"),
         LAMBDA o : multilineCommentBody(toks, o.idx))

multilineCommentBody(toks, i) ==
    IF LA1(toks, i) = "MultiLineCommentContent" THEN multilineCommentBody(toks, i + 1)
    ELSE IF LA1(toks, i) = "OpenMultiLineComment"
    THEN Then(multilineComment(toks, i), LAMBDA c : multilineCommentBody(toks, c.idx))
    ELSE CONSUME(toks, i, "CloseMultiLineComment")

\* nodeSpace: at least one of whitespace or a multi-line comment; yields true
RECURSIVE nodeSpaceMany(_, _)
nodeSpaceMany(toks, i) ==
    IF LA1(toks, i) = "WhiteSpace" THEN nodeSpaceMany(toks, i + 1)
    ELSE IF LA1(toks, i) = "OpenMultiLineComment"
    THEN Then(multilineComment(toks, i), LAMBDA c : nodeSpaceMany(toks, c.idx))
    ELSE Ok(i, TRUE)

nodeSpace(toks, i) ==
    IF LA1(toks, i) \in FirstNodeSpace THEN nodeSpaceMany(toks, i)
    ELSE Fail(i, "EarlyExitException")

\* this.OPTION(() => this.SUBRULE(this.nodeSpace)): true when node space was
\* consumed, and not true otherwise
OptNodeSpace(toks, i) ==
    IF LA1(toks, i) \in FirstNodeSpace THEN nodeSpace(toks, i) ELSE Ok(i, FALSE)

lineComment(toks, i) == CONSUME(toks, i, "LineComment")

\* string: an identifier, or a quoted string from OpenQuote to CloseQuote;
\* yields its text
RECURSIVE quotedBody(_, _, _)
quotedBody(toks, i, acc) ==
    IF LA1(toks, i) = "Unicode" THEN quotedBody(toks, i + 1, acc \o LATok(toks, i).image)
    ELSE Then(CONSUME(toks, i, "CloseQuote"), LAMBDA c : Ok(c.idx, Str(acc)))

string(toks, i) ==
    IF LA1(toks, i) = "Identifier" THEN Ok(i + 1, Str(LATok(toks, i).image))
    ELSE IF LA1(toks, i) = "OpenQuote" THEN quotedBody(toks, i + 1, <<>>)
    ELSE Fail(i, "NoViableAltException")

nonStringValue(toks, i) ==
    IF LA1(toks, i) = "Integer" THEN Ok(i + 1, Num(LATok(toks, i).image))
    ELSE Fail(i, "NoViableAltException")

value(toks, i) ==
    IF LA1(toks, i) \in FirstString THEN string(toks, i)
    ELSE IF LA1(toks, i) \in FirstNonString THEN nonStringValue(toks, i)
    ELSE Fail(i, "NoViableAltException")

\* tag: ( optional space, a string, optional space ); yields the string
tag(toks, i) ==
    Then(CONSUME(toks, i, "LeftParenthesis"), LAMBDA p :
    Then(OptNodeSpace(toks, p.idx), LAMBDA s1 :
    Then(string(toks, s1.idx), LAMBDA s :
    Then(OptNodeSpace(toks, s.idx), LAMBDA s2 :
    Then(CONSUME(toks, s2.idx, "RightParenthesis"), LAMBDA q :
    Ok(q.idx, s.val))))))

\* lineSpace: at least one of node space, a newline or a line comment
RECURSIVE lineSpaceMany(_, _)
lineSpaceMany(toks, i) ==
    IF LA1(toks, i) \in FirstNodeSpace
    THEN Then(nodeSpace(toks, i), LAMBDA s : lineSpaceMany(toks, s.idx))
    ELSE IF LA1(toks, i) = "NewLine" THEN lineSpaceMany(toks, i + 1)
    ELSE IF LA1(toks, i) = "LineComment"
    THEN Then(lineComment(toks, i), LAMBDA c : lineSpaceMany(toks, c.idx))
    ELSE Ok(i, TRUE)

\* lineSpace that succeeds in front of line space without consuming it
lineSpaceStalls(toks, i) ==
    IF LA1(toks, i) \in FirstLineSpace THEN Ok(i, TRUE)
    ELSE Fail(i, "EarlyExitException")

lineSpace(toks, i) ==
    IF LA1(toks, i) \in FirstLineSpace THEN lineSpaceMany(toks, i)
    ELSE Fail(i, "EarlyExitException")

\* this.OPTION(() => this.SUBRULE(this.lineSpace))
OptLineSpace(toks, i) ==
    IF LA1(toks, i) \in FirstLineSpace THEN lineSpace(toks, i) ELSE Ok(i, FALSE)

\* nodeEndTokens
nodeEndTokens == {"RightBrace", "LineComment", "NewLine", "SemiColon", "EOF"}

\* nodeTerminator that lets any other token stand, without consuming it
nodeTerminatorLax(toks, i) ==
    IF LA1(toks, i) \in {"LineComment", "NewLine", "SemiColon", "EOF"}
    THEN Ok(i + 1, TRUE)
    ELSE Ok(i, TRUE)

\* nodeTerminator: a line comment, a newline, a semicolon or end of input
nodeTerminator(toks, i) ==
    IF LA1(toks, i) = "LineComment" THEN lineComment(toks, i)
    ELSE IF LA1(toks, i) = "NewLine" THEN CONSUME(toks, i, "NewLine")
    ELSE IF LA1(toks, i) = "SemiColon" THEN CONSUME(toks, i, "SemiColon")
    ELSE IF LA1(toks, i) = "EOF" THEN CONSUME(toks, i, "EOF")
    ELSE Fail(i, "NoViableAltException")

\* propertyOrArgument, first alternative: a tag, optional space, a value,
\* optional space
TaggedArgument(toks, i) ==
    Then(tag(toks, i), LAMBDA t :
    Then(OptNodeSpace(toks, t.idx), LAMBDA s :
    Then(value(toks, s.idx), LAMBDA v :
    Then(OptNodeSpace(toks, v.idx), LAMBDA hasSpaceAfter :
    Ok(hasSpaceAfter.idx, <<Undefined, v.val, t.val, hasSpaceAfter.val>>)))))

\* NonStringArgument that reads an "=" after the value as the start of a
\* property whose name is the value
NonStringArgumentAsKey(toks, i) ==
    Then(nonStringValue(toks, i), LAMBDA v :
    Then(OptNodeSpace(toks, v.idx), LAMBDA hasSpaceAfter :
    IF LA1(toks, hasSpaceAfter.idx) = "Equals"
    THEN Then(value(toks, hasSpaceAfter.idx + 1), LAMBDA w :
              Ok(w.idx, <<Str(v.val.v), w.val, Undefined, FALSE>>))
    ELSE Ok(hasSpaceAfter.idx, <<Undefined, v.val, Undefined, hasSpaceAfter.val>>)))

\* propertyOrArgument, second alternative: a value that is no string, optional
\* space
NonStringArgument(toks, i) ==
    Then(nonStringValue(toks, i), LAMBDA v :
    Then(OptNodeSpace(toks, v.idx), LAMBDA hasSpaceAfter :
    Ok(hasSpaceAfter.idx, <<Undefined, v.val, Undefined, hasSpaceAfter.val>>)))

\* an optional tag followed by optional space; yields the tag, or undefined
OptTag(toks, i) ==
    IF LA1(toks, i) \in FirstTag
    THEN Then(tag(toks, i), LAMBDA t :
         Then(OptNodeSpace(toks, t.idx), LAMBDA s : Ok(s.idx, t.val)))
    ELSE Ok(i, Undefined)

\* propertyOrArgument, third alternative, the option that starts at "=": optional
\* space, an optional tag with optional space, a value, optional space; the
\* string read before becomes the name
PropertyTail(toks, i, name) ==
    Then(CONSUME(toks, i, "Equals"), LAMBDA e :
    Then(OptNodeSpace(toks, e.idx), LAMBDA s :
    Then(OptTag(toks, s.idx), LAMBDA t :
    Then(value(toks, t.idx), LAMBDA v :
    Then(OptNodeSpace(toks, v.idx), LAMBDA hasSpaceAfter :
    Ok(hasSpaceAfter.idx, <<name, v.val, t.val, hasSpaceAfter.val>>))))))

\* StringEntry that looks for the "=" before the optional space
StringEntryTight(toks, i) ==
    Then(string(toks, i), LAMBDA v :
    IF LA1(toks, v.idx) = "Equals"
    THEN PropertyTail(toks, v.idx, v.val)
    ELSE Then(OptNodeSpace(toks, v.idx), LAMBDA hasSpaceAfter :
         Ok(hasSpaceAfter.idx, <<Undefined, v.val, Undefined, hasSpaceAfter.val>>)))

\* propertyOrArgument, third alternative: a string, optional space, and the
\* option that starts at "="
StringEntry(toks, i) ==
    Then(string(toks, i), LAMBDA v :
    Then(OptNodeSpace(toks, v.idx), LAMBDA hasSpaceAfter :
    IF LA1(toks, hasSpaceAfter.idx) = "Equals"
    THEN PropertyTail(toks, hasSpaceAfter.idx, v.val)
    ELSE Ok(hasSpaceAfter.idx, <<Undefined, v.val, Undefined, hasSpaceAfter.val>>)))

\* propertyOrArgument: yields <<name, value, tag, hasSpaceAfter>>
propertyOrArgument(toks, i) ==
    IF LA1(toks, i) \in FirstTag THEN TaggedArgument(toks, i)
    ELSE IF LA1(toks, i) \in FirstNonString THEN NonStringArgument(toks, i)
    ELSE IF LA1(toks, i) \in FirstString THEN StringEntry(toks, i)
    ELSE Fail(i, "NoViableAltException")

(***************************************************************************)
(* Rule invocations in progress.  The nodes rule keeps the list it         *)
(* builds; the node rule keeps the node it builds, its loop flags, whether *)
(* its caller discards the node (the commented-out alternative of nodes)   *)
(* and which nodeChildren call, if any, it is waiting for.  Its log is a    *)
(* history of the live entries of the node, each with the tuple that       *)
(* propertyOrArgument yielded and the number of tokens consumed before it; *)
(* the code keeps no such list and nothing in the model reads it but the   *)
(* properties stated below.                                                *)
(***************************************************************************)
NodesFrame == [rule |-> "nodes", nodes |-> <<>>]

EmptyMap == [k \in {} |-> Undefined]

NewNode(name, nameTag) ==
    [name |-> name, properties |-> EmptyMap, values |-> <<>>, children |-> <<>>,
     tags |-> [name |-> nameTag, properties |-> EmptyMap, values |-> <<>>]]

\* obj[k] = v of a JS object
Put(obj, k, v) == [x \in DOMAIN obj \cup {k} |-> IF x = k THEN v ELSE obj[x]]

\* NodeBegin that asks for node space between a tag and the name
NodeBeginSpacedTag(toks, i, discard) ==
    Then(IF LA1(toks, i) \in FirstTag
         THEN Then(tag(toks, i), LAMBDA t :
              Then(nodeSpace(toks, t.idx), LAMBDA s : Ok(s.idx, t.val)))
         ELSE Ok(i, Undefined), LAMBDA t :
    Then(string(toks, t.idx), LAMBDA n :
    Then(OptNodeSpace(toks, n.idx), LAMBDA hasSpace :
    Ok(hasSpace.idx,
       [rule |-> "node", node |-> NewNode(n.val, t.val),
        entriesEnded |-> FALSE, childrenEnded |-> FALSE,
        hasSpace |-> hasSpace.val, discard |-> discard, waiting |-> "none",
        log |-> <<>>]))))

\* node, up to the start of its loop: an optional tag with optional space, the
\* name, optional space; yields the rule's frame
NodeBegin(toks, i, discard) ==
    Then(OptTag(toks, i), LAMBDA t :
    Then(string(toks, t.idx), LAMBDA n :
    Then(OptNodeSpace(toks, n.idx), LAMBDA hasSpace :
    Ok(hasSpace.idx,
       [rule |-> "node", node |-> NewNode(n.val, t.val),
        entriesEnded |-> FALSE, childrenEnded |-> FALSE,
        hasSpace |-> hasSpace.val, discard |-> discard, waiting |-> "none",
        log |-> <<>>]))))

\* AddEntry that records a tag only when the entry has one
AddEntryDefinedTag(node, parts) ==
    IF parts[1] # Undefined
    THEN [node EXCEPT !.properties = Put(@, parts[1].v, parts[2]),
                      !.tags.properties =
                          IF parts[3] # Undefined \/ parts[1].v \notin DOMAIN @
                          THEN Put(@, parts[1].v, parts[3]) ELSE @]
    ELSE [node EXCEPT !.values = Append(@, parts[2]),
                      !.tags.values = Append(@, parts[3])]

\* AddEntry that pushes a tag only when the argument has one
AddEntrySparseTags(node, parts) ==
    IF parts[1] # Undefined
    THEN [node EXCEPT !.properties = Put(@, parts[1].v, parts[2]),
                      !.tags.properties = Put(@, parts[1].v, parts[3])]
    ELSE [node EXCEPT !.values = Append(@, parts[2]),
                      !.tags.values =
                          IF parts[3] # Undefined THEN Append(@, parts[3]) ELSE @]

\* the node's entry after propertyOrArgument yielded parts
AddEntry(node, parts) ==
    IF parts[1] # Undefined
    THEN [node EXCEPT !.properties = Put(@, parts[1].v, parts[2]),
                      !.tags.properties = Put(@, parts[1].v, parts[3])]
    ELSE [node EXCEPT !.values = Append(@, parts[2]),
                      !.tags.values = Append(@, parts[3])]

(***************************************************************************)
(* Inputs                                                                  *)
(***************************************************************************)
\* the sequences over S of length at most n
SeqsUpTo(S, n) == UNION {[1..m -> S] : m \in 0..n}

RECURSIVE Concat(_)
Concat(qs) == IF qs = <<>> THEN <<>> ELSE Head(qs) \o Concat(Tail(qs))

\* three quotes in a row open a multi-line string, which the alphabet leaves out
NoTripleQuote(t) ==
    \A o \in 1..(Len(t) - 2) : ~(t[o] = "\"" /\ t[o + 1] = "\"" /\ t[o + 2] = "\"")

ShortTexts == {t \in SeqsUpTo(Alphabet, MaxLen) : NoTripleQuote(t)}

Heads == {<<"a">>, <<"/-", "a">>, <<"(", "b", ")", "a">>, <<"(", "b", ")", " ", "a">>}

Phrases ==
    {<<" ", "1">>, <<" ", "a">>, <<" ", "(", "a", ")", "1">>,
     <<" ", "b", "=", "1">>, <<" ", "b", "=", "a">>, <<" ", "b", "=", "(", "a", ")", "1">>,
     <<" ", "{", "}">>, <<" ", "{", "b", "}">>,
     <<" ", "/-", "1">>, <<" ", "/-", "{", "}">>,
     <<" ", "b", " ", "=", " ", "1">>, <<"=", "1">>, <<";", "b">>, <<"{", "}">>,
     <<" ", "/-", "{", "b", "}">>, <<" ", "{", "b">>}

NodeTexts == {h \o Concat(ps) : h \in Heads, ps \in SeqsUpTo(Phrases, MaxPhrases)}

\* documents of top-level nodes, each ended by a semicolon, some of them
\* commented out
Items ==
    UNION {{<<x, ";">>, <<"/-", x, ";">>, <<"/-", " ", x, ";">>, <<"/-", "\n", x, ";">>} :
           x \in Letters}

DocTexts == {Concat(is) : is \in SeqsUpTo(Items, MaxItems)}

Texts == ShortTexts \cup NodeTexts \cup DocTexts

(***************************************************************************)
(* parse(text)                                                             *)
(***************************************************************************)
Init ==
    /\ text \in Texts
    /\ pc = "lex"
    /\ offset = 0
    /\ modeStack = <<defaultMode>>
    /\ lexTokens = <<>>
    /\ lexErrors = <<>>
    /\ input = <<>>
    /\ idx = 0
    /\ stack = <<>>
    /\ errors = <<>>
    /\ output = Undefined
    /\ results = <<>>

\* lexer.tokenize(text): a token of the type is matched at the offset
LexTokenStep(type) ==
    LET m == LexMatched(text, offset, modeStack, type, PatternLen(type, text, offset))
    IN /\ offset' = m.offset
       /\ lexTokens' = Append(lexTokens, m.token)
       /\ modeStack' = m.modeStack
       /\ lexErrors' =
             IF m.popFailed
             THEN Append(lexErrors,
                         [offset |-> offset, line |-> LineOf(text, offset),
                          column |-> ColumnOf(text, offset),
                          length |-> Len(m.token.image),
                          message |-> <<"unable to pop lexer mode", offset>>])
             ELSE lexErrors

\* lexer.tokenize(text): no pattern matches at the offset; the characters up to
\* next are dropped and reported as one error
LexSkipStep(next) ==
    /\ offset' = next
    /\ lexErrors' = Append(lexErrors, LexError(text, offset, next - offset))
    /\ UNCHANGED <<modeStack, lexTokens>>

\* lexer.tokenize(text), one iteration of its loop: a token is matched in the
\* current mode, or, when no pattern of the mode matches, characters are dropped
\* up to the next match and reported as one error
LexStep ==
    /\ pc = "lex"
    /\ offset < Len(text)
    /\ LET j == FirstMatch(Top(modeStack), text, offset, 1)
       IN IF j > 0
          THEN LexTokenStep(modes[Top(modeStack)][j])
          ELSE LexSkipStep(Resync(Top(modeStack), text, offset + 1))
    /\ UNCHANGED <<results, text, pc, input, idx, stack, errors, output>>

\* transformLexerError(error, tokens, text)
RECURSIVE CountNewLines(_)
CountNewLines(image) ==
    IF image = <<>> THEN 0
    ELSE (IF Head(image) = "\n" THEN 1 ELSE 0) + CountNewLines(Tail(image))

RECURSIVE LastLineLen(_)
LastLineLen(image) ==
    IF image = <<>> \/ image[Len(image)] = "\n" THEN 0
    ELSE 1 + LastLineLen(SubSeq(image, 1, Len(image) - 1))

\* transformLexerError with the token's start taken from the end offset
transformLexerErrorAtEnd(error, tokens, t) ==
    [name |-> "MismatchedTokenException",
     message |-> error.message,
     token |-> [tokenType |-> "Unknown",
                image |-> SubSeq(t, error.offset + 1, error.offset + error.length),
                startOffset |-> error.offset + error.length,
                endOffset |-> error.offset + error.length,
                startLine |-> error.line, endLine |-> error.line,
                startColumn |-> error.column, endColumn |-> error.column],
     previousToken |-> NoToken]

transformLexerError(error, tokens, t) ==
    LET endOffset == error.offset + error.length
        image == SubSeq(t, error.offset + 1, endOffset)
        prev == {j \in 1..Len(tokens) : tokens[j].endOffset + 1 = error.offset}
    IN [name |-> "MismatchedTokenException",
        message |-> error.message,
        token |-> [tokenType |-> "Unknown", image |-> image,
                   startOffset |-> error.offset, endOffset |-> endOffset,
                   startLine |-> error.line,
                   endLine |-> error.line + CountNewLines(image),
                   startColumn |-> error.column,
                   endColumn |-> error.column + LastLineLen(image)],
        previousToken |->
            IF prev = {} THEN NoToken
            ELSE tokens[CHOOSE j \in prev : \A k \in prev : j <= k]]

\* the exception a failed rule saves: its name, the offending token LA(1)
\* and the token before it, LA(0), which outside the token vector is EOF
Exception(toks, r) ==
    [name |-> r.val, message |-> <<r.val, r.idx>>, token |-> LATok(toks, r.idx),
     previousToken |-> IF r.idx = 0 \/ r.idx > Len(toks) THEN EOF ELSE toks[r.idx]]

\* Abort returning the nodes that the outermost nodes rule has collected
AbortPartial(r) ==
    /\ errors' = Append(errors, Exception(input, r))
    /\ output' = Arr(stack[1].nodes)
    /\ stack' = <<>>
    /\ idx' = r.idx
    /\ pc' = "done"

\* a recognition exception leaves every rule in progress; the first rule
\* invoked returns undefined
Abort(r) ==
    /\ errors' = Append(errors, Exception(input, r))
    /\ output' = Undefined
    /\ stack' = <<>>
    /\ idx' = r.idx
    /\ pc' = "done"

\* ParseStart that also refuses a token vector whose lexer did not end in the
\* default mode
ParseStartClosedModes ==
    /\ pc = "lex"
    /\ offset = Len(text)
    /\ \/ /\ lexErrors # <<>> \/ modeStack # <<defaultMode>>
          /\ output' = Undefined
          /\ errors' = [j \in 1..Len(lexErrors) |->
                            transformLexerError(lexErrors[j], lexTokens, text)]
                        \o (IF modeStack # <<defaultMode>>
                            THEN <<transformLexerError(
                                      [offset |-> lexTokens[1].startOffset, length |-> 1,
                                       line |-> 1, column |-> 1,
                                       message |-> <<"unterminated">>],
                                      lexTokens, text)>>
                            ELSE <<>>)
          /\ pc' = "done"
          /\ UNCHANGED <<input, idx, stack>>
       \/ /\ lexErrors = <<>> /\ modeStack = <<defaultMode>>
          /\ input' = lexTokens
          /\ errors' = <<>>
          /\ idx' = IF LA1(lexTokens, 0) = "BOM" THEN 1 ELSE 0
          /\ stack' = <<NodesFrame>>
          /\ pc' = "parse"
          /\ UNCHANGED output
    /\ UNCHANGED <<results, text, offset, modeStack, lexTokens, lexErrors>>

\* ParseStart that hands the tokens to the parser without resetting it
ParseStartNoReset ==
    /\ pc = "lex"
    /\ offset = Len(text)
    /\ \/ /\ lexErrors # <<>>
          /\ output' = Undefined
          /\ errors' = [j \in 1..Len(lexErrors) |->
                            transformLexerError(lexErrors[j], lexTokens, text)]
          /\ pc' = "done"
          /\ UNCHANGED <<input, idx, stack>>
       \/ /\ lexErrors = <<>>
          /\ input' = lexTokens
          /\ idx' = IF LA1(lexTokens, 0) = "BOM" THEN 1 ELSE 0
          /\ stack' = <<NodesFrame>>
          /\ pc' = "parse"
          /\ UNCHANGED <<errors, output>>
    /\ UNCHANGED <<results, text, offset, modeStack, lexTokens, lexErrors>>

\* parse, after tokenize: with lex errors the result is their transformation;
\* without, the tokens become the parser's input and the document rule starts:
\* an optional BOM, then the nodes rule
ParseStart ==
    /\ pc = "lex"
    /\ offset = Len(text)
    /\ \/ /\ lexErrors # <<>>
          /\ output' = Undefined
          /\ errors' = [j \in 1..Len(lexErrors) |->
                            transformLexerError(lexErrors[j], lexTokens, text)]
          /\ pc' = "done"
          /\ UNCHANGED <<input, idx, stack>>
       \/ /\ lexErrors = <<>>
          /\ input' = lexTokens
          /\ errors' = <<>>
          /\ idx' = IF LA1(lexTokens, 0) = "BOM" THEN 1 ELSE 0
          /\ stack' = <<NodesFrame>>
          /\ pc' = "parse"
          /\ UNCHANGED output
    /\ UNCHANGED <<results, text, offset, modeStack, lexTokens, lexErrors>>

InNodes == pc = "parse" /\ stack # <<>> /\ Top(stack).rule = "nodes"
InNode == pc = "parse" /\ stack # <<>> /\ Top(stack).rule = "node"

Replace(s, f) == [s EXCEPT ![Len(s)] = f]

\* nodes, first alternative: BlockComment, optional line space, and a node whose
\* result is dropped
NodesCommentedNode ==
    /\ InNodes
    /\ LA1(input, idx) = "BlockComment"
    /\ LET s == OptLineSpace(input, idx + 1)
           n == NodeBegin(input, s.idx, TRUE)
       IN \/ /\ s.ok /\ n.ok
             /\ idx' = n.idx
             /\ stack' = Append(stack, n.val)
             /\ UNCHANGED <<pc, errors, output>>
          \/ /\ ~(s.ok /\ n.ok)
             /\ Abort(IF s.ok THEN n ELSE s)
    /\ UNCHANGED <<results, text, offset, modeStack, lexTokens, lexErrors, input>>

\* nodes, second alternative: line space
NodesLineSpace ==
    /\ InNodes
    /\ LA1(input, idx) \in FirstLineSpace
    /\ LET s == lineSpace(input, idx)
       IN \/ /\ s.ok
             /\ idx' = s.idx
             /\ UNCHANGED <<pc, stack, errors, output>>
          \/ /\ ~s.ok
             /\ Abort(s)
    /\ UNCHANGED <<results, text, offset, modeStack, lexTokens, lexErrors, input>>

\* nodes, third alternative: a node, pushed on the list when it returns
NodesNode ==
    /\ InNodes
    /\ LA1(input, idx) \in FirstNode
    /\ LET n == NodeBegin(input, idx, FALSE)
       IN \/ /\ n.ok
             /\ idx' = n.idx
             /\ stack' = Append(stack, n.val)
             /\ UNCHANGED <<pc, errors, output>>
          \/ /\ ~n.ok
             /\ Abort(n)
    /\ UNCHANGED <<results, text, offset, modeStack, lexTokens, lexErrors, input>>

\* DocumentEnd that returns the list wherever the nodes rule stopped
DocumentEndAnywhere ==
    /\ InNodes
    /\ Len(stack) = 1
    /\ LA1(input, idx) \notin {"BlockComment"} \cup FirstLineSpace \cup FirstNode
    /\ output' = Arr(Top(stack).nodes)
    /\ stack' = <<>>
    /\ pc' = "done"
    /\ UNCHANGED <<results, text, offset, modeStack, lexTokens, lexErrors, input, idx,
                   errors>>

\* nodes returns to document: end of input is consumed and the list is the
\* output
DocumentEnd ==
    /\ InNodes
    /\ Len(stack) = 1
    /\ LA1(input, idx) \notin {"BlockComment"} \cup FirstLineSpace \cup FirstNode
    /\ LET e == CONSUME(input, idx, "EOF")
       IN \/ /\ e.ok
             /\ idx' = e.idx
             /\ output' = Arr(Top(stack).nodes)
             /\ stack' = <<>>
             /\ pc' = "done"
             /\ UNCHANGED errors
          \/ /\ ~e.ok
             /\ Abort(e)
    /\ UNCHANGED <<results, text, offset, modeStack, lexTokens, lexErrors, input>>

\* ChildrenEnd that assigns the nodes of a commented-out block as well
ChildrenEndKeepsCommented ==
    /\ InNodes
    /\ Len(stack) > 1
    /\ LA1(input, idx) \notin {"BlockComment"} \cup FirstLineSpace \cup FirstNode
    /\ LET b == CONSUME(input, idx, "RightBrace")
           hasSpace == OptNodeSpace(input, b.idx)
           f == stack[Len(stack) - 1]
       IN \/ /\ b.ok /\ hasSpace.ok
             /\ idx' = hasSpace.idx
             /\ stack' =
                  Replace(Pop(stack),
                     [f EXCEPT !.node.children = Top(stack).nodes,
                               !.entriesEnded = TRUE,
                               !.childrenEnded = IF f.waiting = "children" THEN TRUE ELSE @,
                               !.hasSpace = hasSpace.val,
                               !.waiting = "none"])
             /\ UNCHANGED <<pc, errors, output>>
          \/ /\ ~(b.ok /\ hasSpace.ok)
             /\ Abort(IF b.ok THEN hasSpace ELSE b)
    /\ UNCHANGED <<results, text, offset, modeStack, lexTokens, lexErrors, input>>

\* ChildrenEnd after which a commented-out block ends the children as well
ChildrenEndClosesAll ==
    /\ InNodes
    /\ Len(stack) > 1
    /\ LA1(input, idx) \notin {"BlockComment"} \cup FirstLineSpace \cup FirstNode
    /\ LET b == CONSUME(input, idx, "RightBrace")
           hasSpace == OptNodeSpace(input, b.idx)
           f == stack[Len(stack) - 1]
       IN \/ /\ b.ok /\ hasSpace.ok
             /\ idx' = hasSpace.idx
             /\ stack' =
                  Replace(Pop(stack),
                     [f EXCEPT !.node.children =
                                   IF f.waiting = "children" THEN Top(stack).nodes ELSE @,
                               !.entriesEnded = TRUE,
                               !.childrenEnded = TRUE,
                               !.hasSpace = hasSpace.val,
                               !.waiting = "none"])
             /\ UNCHANGED <<pc, errors, output>>
          \/ /\ ~(b.ok /\ hasSpace.ok)
             /\ Abort(IF b.ok THEN hasSpace ELSE b)
    /\ UNCHANGED <<results, text, offset, modeStack, lexTokens, lexErrors, input>>

\* nodes returns to nodeChildren: the closing brace is consumed; a live block
\* becomes the children of the node and ends its entries and its children, a
\* commented-out block ends its entries; then optional node space
ChildrenEnd ==
    /\ InNodes
    /\ Len(stack) > 1
    /\ LA1(input, idx) \notin {"BlockComment"} \cup FirstLineSpace \cup FirstNode
    /\ LET b == CONSUME(input, idx, "RightBrace")
           hasSpace == OptNodeSpace(input, b.idx)
           f == stack[Len(stack) - 1]
       IN \/ /\ b.ok /\ hasSpace.ok
             /\ idx' = hasSpace.idx
             /\ stack' =
                  Replace(Pop(stack),
                     IF f.waiting = "children"
                     THEN [f EXCEPT !.node.children = Top(stack).nodes,
                                    !.entriesEnded = TRUE,
                                    !.childrenEnded = TRUE,
                                    !.hasSpace = hasSpace.val,
                                    !.waiting = "none"]
                     ELSE [f EXCEPT !.entriesEnded = TRUE,
                                    !.hasSpace = hasSpace.val,
                                    !.waiting = "none"])
             /\ UNCHANGED <<pc, errors, output>>
          \/ /\ ~(b.ok /\ hasSpace.ok)
             /\ Abort(IF b.ok THEN hasSpace ELSE b)
    /\ UNCHANGED <<results, text, offset, modeStack, lexTokens, lexErrors, input>>

\* the tokens that can start an iteration of the node's loop
FirstNodeLoop == FirstPropertyOrArgument \cup {"LeftBrace", "BlockComment"}

\* LoopGate that does not ask for space
LoopGateNoSpace(f, toks, i) ==
    /\ LA1(toks, i) \notin nodeEndTokens
    /\ LA1(toks, i) \in FirstNodeLoop

\* whether the node's loop takes another iteration: its gate and its lookahead
LoopGate(f, toks, i) ==
    /\ f.hasSpace
    /\ LA1(toks, i) \notin nodeEndTokens
    /\ LA1(toks, i) \in FirstNodeLoop

\* node's loop, first alternative: an entry, while entries have not ended
NodeEntry ==
    /\ InNode
    /\ LoopGate(Top(stack), input, idx)
    /\ ~Top(stack).entriesEnded
    /\ LA1(input, idx) \in FirstPropertyOrArgument
    /\ LET parts == propertyOrArgument(input, idx)
           f == Top(stack)
       IN \/ /\ parts.ok
             /\ idx' = parts.idx
             /\ stack' = Replace(stack, [f EXCEPT !.node = AddEntry(@, parts.val),
                                                  !.hasSpace = parts.val[4],
                                                  !.log = Append(@, [parts |-> parts.val,
                                                                     at |-> idx])])
             /\ UNCHANGED <<pc, errors, output>>
          \/ /\ ~parts.ok
             /\ Abort(parts)
    /\ UNCHANGED <<results, text, offset, modeStack, lexTokens, lexErrors, input>>

\* NodeChildren without the gate on childrenEnded
NodeChildrenUngated ==
    /\ InNode
    /\ LoopGate(Top(stack), input, idx)
    /\ LA1(input, idx) = "LeftBrace"
    /\ idx' = idx + 1
    /\ stack' = Append(Replace(stack, [Top(stack) EXCEPT !.waiting = "children"]),
                       NodesFrame)
    /\ UNCHANGED <<results, text, pc, offset, modeStack, lexTokens, lexErrors, input, errors,
                   output>>

\* node's loop, second alternative: the children block, while children have not
\* ended; nodeChildren consumes the brace and calls nodes
NodeChildren ==
    /\ InNode
    /\ LoopGate(Top(stack), input, idx)
    /\ ~Top(stack).childrenEnded
    /\ LA1(input, idx) = "LeftBrace"
    /\ idx' = idx + 1
    /\ stack' = Append(Replace(stack, [Top(stack) EXCEPT !.waiting = "children"]),
                       NodesFrame)
    /\ UNCHANGED <<results, text, pc, offset, modeStack, lexTokens, lexErrors, input, errors,
                   output>>

\* NodeCommented whose children block is gated like the live one
NodeCommentedGated ==
    /\ InNode
    /\ LoopGate(Top(stack), input, idx)
    /\ LA1(input, idx) = "BlockComment"
    /\ LET s == OptLineSpace(input, idx + 1)
           f == Top(stack)
       IN \/ /\ s.ok
             /\ ~f.entriesEnded
             /\ LA1(input, s.idx) \in FirstPropertyOrArgument
             /\ LET parts == propertyOrArgument(input, s.idx)
                IN \/ /\ parts.ok
                      /\ idx' = parts.idx
                      /\ stack' = Replace(stack, [f EXCEPT !.hasSpace = parts.val[4]])
                      /\ UNCHANGED <<pc, errors, output>>
                   \/ /\ ~parts.ok
                      /\ Abort(parts)
          \/ /\ s.ok
             /\ ~f.childrenEnded
             /\ LA1(input, s.idx) = "LeftBrace"
             /\ idx' = s.idx + 1
             /\ stack' = Append(Replace(stack, [f EXCEPT !.waiting = "commented"]),
                                NodesFrame)
             /\ UNCHANGED <<pc, errors, output>>
          \/ /\ s.ok
             /\ f.childrenEnded \/ LA1(input, s.idx) # "LeftBrace"
             /\ f.entriesEnded \/ LA1(input, s.idx) \notin FirstPropertyOrArgument
             /\ Abort(Fail(s.idx, "NoViableAltException"))
          \/ /\ ~s.ok
             /\ Abort(s)
    /\ UNCHANGED <<results, text, offset, modeStack, lexTokens, lexErrors, input>>

\* node's loop, third alternative: BlockComment, optional line space, then an
\* entry that is dropped (while entries have not ended) or a children block
\* that is dropped
NodeCommented ==
    /\ InNode
    /\ LoopGate(Top(stack), input, idx)
    /\ LA1(input, idx) = "BlockComment"
    /\ LET s == OptLineSpace(input, idx + 1)
           f == Top(stack)
       IN \/ /\ s.ok
             /\ ~f.entriesEnded
             /\ LA1(input, s.idx) \in FirstPropertyOrArgument
             /\ LET parts == propertyOrArgument(input, s.idx)
                IN \/ /\ parts.ok
                      /\ idx' = parts.idx
                      /\ stack' = Replace(stack, [f EXCEPT !.hasSpace = parts.val[4]])
                      /\ UNCHANGED <<pc, errors, output>>
                   \/ /\ ~parts.ok
                      /\ Abort(parts)
          \/ /\ s.ok
             /\ LA1(input, s.idx) = "LeftBrace"
             /\ idx' = s.idx + 1
             /\ stack' = Append(Replace(stack, [f EXCEPT !.waiting = "commented"]),
                                NodesFrame)
             /\ UNCHANGED <<pc, errors, output>>
          \/ /\ s.ok
             /\ LA1(input, s.idx) # "LeftBrace"
             /\ f.entriesEnded \/ LA1(input, s.idx) \notin FirstPropertyOrArgument
             /\ Abort(Fail(s.idx, "NoViableAltException"))
          \/ /\ ~s.ok
             /\ Abort(s)
    /\ UNCHANGED <<results, text, offset, modeStack, lexTokens, lexErrors, input>>

\* node's loop: the iteration starts and no alternative is open for the token
NodeNoViableAlt ==
    /\ InNode
    /\ LoopGate(Top(stack), input, idx)
    /\ \/ Top(stack).entriesEnded /\ LA1(input, idx) \in FirstPropertyOrArgument
       \/ Top(stack).childrenEnded /\ LA1(input, idx) = "LeftBrace"
    /\ Abort(Fail(idx, "NoViableAltException"))
    /\ UNCHANGED <<results, text, offset, modeStack, lexTokens, lexErrors, input>>

\* NodeEnd that pushes the node also when it was commented out
NodeEndKeepAll ==
    /\ InNode
    /\ ~LoopGate(Top(stack), input, idx)
    /\ LET t == IF LA1(input, idx) # "RightBrace" THEN nodeTerminator(input, idx)
                ELSE Ok(idx, TRUE)
           caller == stack[Len(stack) - 1]
       IN \/ /\ t.ok
             /\ idx' = t.idx
             /\ stack' = Replace(Pop(stack),
                                 [caller EXCEPT !.nodes = Append(@, Top(stack).node)])
             /\ UNCHANGED <<pc, errors, output>>
          \/ /\ ~t.ok
             /\ Abort(t)
    /\ UNCHANGED <<results, text, offset, modeStack, lexTokens, lexErrors, input>>

\* node, after its loop: unless a closing brace is next, the node terminator;
\* the node returns to nodes, which pushes it on its list unless it was
\* commented out
NodeEnd ==
    /\ InNode
    /\ ~LoopGate(Top(stack), input, idx)
    /\ LET t == IF LA1(input, idx) # "RightBrace" THEN nodeTerminator(input, idx)
                ELSE Ok(idx, TRUE)
           f == Top(stack)
           caller == stack[Len(stack) - 1]
       IN \/ /\ t.ok
             /\ idx' = t.idx
             /\ stack' =
                  Replace(Pop(stack),
                     IF f.discard THEN caller
                     ELSE [caller EXCEPT !.nodes = Append(@, f.node)])
             /\ UNCHANGED <<pc, errors, output>>
          \/ /\ ~t.ok
             /\ Abort(t)
    /\ UNCHANGED <<results, text, offset, modeStack, lexTokens, lexErrors, input>>

Next ==
    \/ LexStep
    \/ ParseStart
    \/ NodesCommentedNode
    \/ NodesLineSpace
    \/ NodesNode
    \/ DocumentEnd
    \/ ChildrenEnd
    \/ NodeEntry
    \/ NodeChildren
    \/ NodeCommented
    \/ NodeNoViableAlt
    \/ NodeEnd

Spec == Init /\ [][Next]_vars

(***************************************************************************)
(* Calls of parse in a row.  The lexer and the parser are module-level     *)
(* objects: a later call starts with the parser as the call before left    *)
(* it, while tokenize starts afresh and the result is a new object.        *)
(***************************************************************************)
\* the texts of the calls: accepted ones, ones with a lexer error and ones with
\* a parse error, which together take every path of parse and of the grammar
CallTexts ==
    {<<"a">>, <<"=">>, <<"*/">>, <<"a", ";", "=">>, <<"a", " ", "1", ";", "\n", "b">>,
     <<"a", " ", "{", "}", " ", "{", "}">>, <<"/-", "a", " ", "/-", "1", " ", "/-", "b">>,
     <<"/-", "a", " ", "/-", "{", "}", " ", "{", "b", "}">>, <<"a", " ", "/-", "}">>}

\* the first call, on the lexer and the parser as constructed
InitCalls ==
    /\ text \in CallTexts
    /\ pc = "lex"
    /\ offset = 0
    /\ modeStack = <<defaultMode>>
    /\ lexTokens = <<>>
    /\ lexErrors = <<>>
    /\ input = <<>>
    /\ idx = 0
    /\ stack = <<>>
    /\ errors = <<>>
    /\ output = Undefined
    /\ results = <<>>

\* the call has returned and parse is called again, with any text
NewCall ==
    /\ pc = "done"
    /\ Len(results) + 1 < MaxCalls
    /\ results' = Append(results, [text |-> text, output |-> output, errors |-> errors])
    /\ text' \in CallTexts
    /\ pc' = "lex"
    /\ offset' = 0
    /\ modeStack' = <<defaultMode>>
    /\ lexTokens' = <<>>
    /\ lexErrors' = <<>>
    /\ output' = Undefined
    /\ UNCHANGED <<input, idx, stack, errors>>

NextCalls == Next \/ NewCall

SpecCalls == InitCalls /\ [][NextCalls]_vars

(***************************************************************************)
(* One call of parse run to its end: tokenize and document are synchronous *)
(* calls on one thread, so a step that can be taken is taken.              *)
(***************************************************************************)
\* the texts run to their end: the short ones, the texts of CallTexts and the
\* nodes of one phrase
LiveTexts ==
    SeqsUpTo(Alphabet, MaxLiveLen) \cup CallTexts
        \cup {h \o p : h \in Heads, p \in Phrases}

InitLive ==
    /\ text \in LiveTexts
    /\ pc = "lex"
    /\ offset = 0
    /\ modeStack = <<defaultMode>>
    /\ lexTokens = <<>>
    /\ lexErrors = <<>>
    /\ input = <<>>
    /\ idx = 0
    /\ stack = <<>>
    /\ errors = <<>>
    /\ output = Undefined
    /\ results = <<>>

LiveSpec == InitLive /\ [][Next]_vars /\ WF_vars(Next)

(***************************************************************************)
(* Properties                                                              *)
(***************************************************************************)
Done == pc = "done"
Accepted == Done /\ output # Undefined
Rejected == Done /\ output = Undefined /\ errors # <<>>

\* the step fails the whole parse
Fails == pc' = "done" /\ output' = Undefined /\ errors' # <<>>

\* the node rules in progress
NodeFrames == {stack[j] : j \in {k \in 1..Len(stack) : stack[k].rule = "node"}}

\* the types of the tokens of a token vector
TypesOf(toks) == [j \in 1..Len(toks) |-> toks[j].tokenType]

\* C1: within one node a live children block is the last live element: once
\* the node's children have ended, a token that starts an entry or a children
\* block fails the parse.
C1_ChildrenBlockIsLast ==
    [][(/\ InNode
        /\ Top(stack).childrenEnded
        /\ LA1(input, idx) \in FirstPropertyOrArgument \cup {"LeftBrace"})
       => Fails]_vars

\* C1 witness: "a {} {}" is rejected at the second opening brace, which comes
\* after the closing brace of the first block and a space.
C1_Witness ==
    /\ Rejected
    /\ text = <<"a", " ", "{", "}", " ", "{", "}">>
    /\ errors[1].name = "NoViableAltException"
    /\ errors[1].token.startOffset = 5

\* C2: parse fails as a whole: when the call has returned, the output is
\* present exactly when there are no errors, and an absent output comes with
\* at least one error.
C2_AllOrNothing ==
    Done => /\ (output # Undefined) <=> (errors = <<>>)
            /\ (output = Undefined) => Len(errors) >= 1

\* C2 witness: a text that lexes without error and breaks the grammar after a
\* first node was already complete.
C2_Witness ==
    /\ Rejected
    /\ lexErrors = <<>>
    /\ text = <<"a", ";", "=">>

\* C3: lex errors short-circuit parsing: with a lexer error the parser gets no
\* input and no rule is invoked, and when the call has returned the output is
\* absent and the errors are the lexer's errors one for one, in order, with
\* their message, offset, line and column.
C3_LexErrorsShortCircuit ==
    lexErrors # <<>> =>
        /\ pc # "parse" /\ input = <<>> /\ idx = 0 /\ stack = <<>>
        /\ Done =>
            /\ output = Undefined
            /\ Len(errors) = Len(lexErrors)
            /\ \A j \in 1..Len(lexErrors) :
                /\ errors[j].message = lexErrors[j].message
                /\ errors[j].token.startOffset = lexErrors[j].offset
                /\ errors[j].token.startLine = lexErrors[j].line
                /\ errors[j].token.startColumn = lexErrors[j].column

\* C3 witness: two lexer errors, the second one on the second line, and tokens
\* lexed around them.
C3_Witness ==
    /\ Done
    /\ Len(lexErrors) = 2
    /\ lexErrors[2].line = 2
    /\ lexTokens # <<>>

\* the entries of a log that are properties of key k, and those that are
\* positional arguments
IsProperty(e) == e.parts[1] # Undefined
KeyIndexes(log, k) == {j \in 1..Len(log) : IsProperty(log[j]) /\ log[j].parts[1].v = k}
Max(S) == CHOOSE j \in S : \A m \in S : m <= j
IsArgument(e) == e.parts[1] = Undefined
Arguments(log) == SelectSeq(log, IsArgument)

\* C4: duplicate property keys resolve to the last occurrence, for the value
\* and for its tag: in every node under construction (and so in the node it
\* returns) the keys of properties are the keys of its live property entries,
\* and properties[k] and tags.properties[k] are the value and the tag
\* (undefined when it has none) of the last live entry of key k.
C4_LastOccurrenceWins ==
    \A f \in NodeFrames :
        /\ DOMAIN f.node.properties = {f.log[j].parts[1].v :
                                          j \in {m \in 1..Len(f.log) : IsProperty(f.log[m])}}
        /\ \A k \in DOMAIN f.node.properties :
              LET last == f.log[Max(KeyIndexes(f.log, k))].parts
              IN /\ f.node.properties[k] = last[2]
                 /\ f.node.tags.properties[k] = last[3]

\* C4 witness: a node with two live entries of the same key, the first tagged
\* and the second untagged and of another value.
C4_Witness ==
    \E f \in NodeFrames :
        /\ Len(f.log) = 2
        /\ IsProperty(f.log[1]) /\ IsProperty(f.log[2])
        /\ f.log[1].parts[1] = f.log[2].parts[1]
        /\ f.log[1].parts[3] # Undefined
        /\ f.log[2].parts[3] = Undefined
        /\ f.log[1].parts[2] # f.log[2].parts[2]

\* every node of a list of nodes, children included
RECURSIVE NodesIn(_)
NodesIn(nodes) ==
    UNION {{nodes[j]} \cup NodesIn(nodes[j].children) : j \in 1..Len(nodes)}

\* the nodes under construction, the nodes already collected by a nodes rule
\* in progress, and the nodes of the output
AllNodes ==
    UNION {IF stack[j].rule = "node"
           THEN {stack[j].node} \cup NodesIn(stack[j].node.children)
           ELSE NodesIn(stack[j].nodes) : j \in 1..Len(stack)}
    \cup (IF output # Undefined THEN NodesIn(output.v) ELSE {})

\* C5: the tags record stays parallel to the node data: in every state of the
\* entry loop tags.values is the sequence of the tags of the positional
\* arguments in source order, as values is the sequence of their values, and
\* in every node, returned ones included, tags.values is as long as values and
\* the keys of tags.properties are keys of properties.
C5_TagsParallel ==
    /\ \A f \in NodeFrames :
          LET args == Arguments(f.log)
          IN /\ f.node.values = [j \in 1..Len(args) |-> args[j].parts[2]]
             /\ f.node.tags.values = [j \in 1..Len(args) |-> args[j].parts[3]]
    /\ \A n \in AllNodes :
          /\ Len(n.tags.values) = Len(n.values)
          /\ DOMAIN n.tags.properties \subseteq DOMAIN n.properties

\* C5 witness: a node with an untagged argument and a tagged argument after it.
C5_Witness ==
    \E f \in NodeFrames :
        /\ Len(f.node.values) = 2
        /\ f.node.tags.values[1] = Undefined
        /\ f.node.tags.values[2] # Undefined

\* the names of the nodes of a list
NamesOf(nodes) == [j \in 1..Len(nodes) |-> nodes[j].name.v]

\* the offset after the first semicolon at or after offset o
RECURSIVE AfterSemiColon(_, _)
AfterSemiColon(t, o) ==
    IF o >= Len(t) THEN o
    ELSE IF t[o + 1] = ";" THEN o + 1
    ELSE AfterSemiColon(t, o + 1)

\* the names of the nodes of a document of DocTexts that no marker precedes,
\* in source order
RECURSIVE LiveNames(_, _)
LiveNames(t, o) ==
    IF o >= Len(t) THEN <<>>
    ELSE IF t[o + 1] = "/-" THEN LiveNames(t, AfterSemiColon(t, o))
    ELSE <<<<t[o + 1]>>>> \o LiveNames(t, AfterSemiColon(t, o))

\* C6: a BlockComment token followed by optional line space and one node
\* discards that node: a document of nodes, some of them commented out, is
\* accepted without error, and its output holds exactly the nodes that no
\* marker precedes, in source order; and an accepted text that is one
\* commented-out node, whatever its entries, has no nodes.
C6_CommentedNodeDiscarded ==
    /\ (Done /\ text \in DocTexts) =>
          /\ errors = <<>>
          /\ output # Undefined
          /\ NamesOf(output.v) = LiveNames(text, 0)
    /\ (/\ Accepted
        /\ text \in NodeTexts
        /\ text[1] = "/-"
        /\ \A o \in 1..Len(text) : text[o] # ";") => output.v = <<>>

\* C6 witness: a commented-out node with a newline after the marker, between
\* two live nodes.
C6_Witness ==
    /\ Accepted
    /\ text = <<"b", ";", "/-", "\n", "a", ";", "a", ";">>
    /\ NamesOf(output.v) = <<<<"b">>, <<"a">>>>

\* a text that is one string whose closing quote is missing
Unterminated(t) ==
    /\ Len(t) >= 1
    /\ t[1] = "\""
    /\ \A o \in 2..Len(t) : t[o] \in UnicodeChars

Terminators == {"LineComment", "NewLine", "SemiColon", "EOF"}

\* the node rule on top returns to its caller in this step
NodeReturns == InNode /\ pc' = "parse" /\ Len(stack') = Len(stack) - 1

\* the number of nodes of a list of nodes, children included
RECURSIVE NodeCount(_)
NodeCount(nodes) ==
    IF nodes = <<>> THEN 0
    ELSE 1 + NodeCount(Head(nodes).children) + NodeCount(Tail(nodes))

CountTypes(toks, S) == Cardinality({j \in 1..Len(toks) : toks[j].tokenType \in S})

\* C8: every node must be terminated: a node returns only in front of a
\* closing brace, which it leaves, or by consuming a line comment, a newline, a
\* semicolon or end of input; when its loop has ended in front of any other
\* token the parse fails; and so an accepted document never has more nodes than
\* its tokens can end (its terminators, its closing braces and end of input).
C8_NodeTerminated ==
    /\ [][NodeReturns =>
            \/ LA1(input, idx) = "RightBrace" /\ idx' = idx
            \/ LA1(input, idx) \in Terminators /\ idx' = idx + 1]_vars
    /\ [][(/\ InNode
           /\ ~LoopGate(Top(stack), input, idx)
           /\ LA1(input, idx) \notin Terminators \cup {"RightBrace"})
          => Fails]_vars
    /\ [](Accepted =>
            NodeCount(output.v) <=
                1 + CountTypes(input, {"LineComment", "NewLine", "SemiColon", "RightBrace"}))

\* C8 witness: the node a directly followed by a string that could start the
\* next node is rejected at the opening quote.
C8_Witness ==
    /\ Rejected
    /\ text = <<"a", "\"", "\"">>
    /\ errors[1].token.tokenType = "OpenQuote"

\* a live entry is recorded in the node on top in this step
EntryRecorded ==
    /\ InNode
    /\ pc' = "parse"
    /\ Len(stack') = Len(stack)
    /\ Top(stack').node # Top(stack).node

\* C9: a property key can only come from an untagged string: an entry that
\* starts with a tag or with a literal that is no string adds one positional
\* argument and leaves the properties as they are; a node's loop in front of
\* "=" fails the parse; and every property entry started with a string token.
C9_KeyOnlyFromUntaggedString ==
    /\ [][(EntryRecorded /\ LA1(input, idx) \in FirstTag \cup FirstNonString) =>
            /\ Top(stack').node.properties = Top(stack).node.properties
            /\ Top(stack').node.tags.properties = Top(stack).node.tags.properties
            /\ Len(Top(stack').node.values) = Len(Top(stack).node.values) + 1]_vars
    /\ [][(InNode /\ LA1(input, idx) = "Equals") => Fails]_vars
    /\ [](\A f \in NodeFrames : \A j \in 1..Len(f.log) :
            IsProperty(f.log[j]) =>
                /\ input[f.log[j].at + 1].tokenType \in FirstString
                /\ f.log[j].parts[1].t = "string")

\* C9 witness: a tagged argument has been recorded and "=" comes next.
C9_Witness ==
    /\ InNode
    /\ LA1(input, idx) = "Equals"
    /\ Top(stack).node.tags.values # <<>>
    /\ Top(stack).node.tags.values[1] # Undefined

\* the tuple of an entry that starts with a string at i tokens, told from the
\* tokens after the string: a property when "=" follows the optional space
StringEntryParts(toks, i) ==
    LET s == string(toks, i)
        sp == OptNodeSpace(toks, s.idx)
        rhs == OptTag(toks, OptNodeSpace(toks, sp.idx + 1).idx)
        v == value(toks, rhs.idx)
    IN IF LA1(toks, sp.idx) = "Equals"
       THEN [key |-> s.val, value |-> v.val, tag |-> rhs.val]
       ELSE [key |-> Undefined, value |-> s.val, tag |-> Undefined]

\* C10: an untagged string entry is a property exactly when "=" is the next
\* token after optional node space: then the string is the key, the value
\* after "=" with its optional tag is the property's, and values stays as it
\* is; otherwise the string is appended to values and the properties stay as
\* they are.
C10_StringEntry ==
    [][(EntryRecorded /\ LA1(input, idx) \in FirstString) =>
         LET e == StringEntryParts(input, idx)
             old == Top(stack).node
             new == Top(stack').node
         IN IF e.key # Undefined
            THEN /\ new.properties = Put(old.properties, e.key.v, e.value)
                 /\ new.tags.properties = Put(old.tags.properties, e.key.v, e.tag)
                 /\ new.values = old.values
                 /\ new.tags.values = old.tags.values
            ELSE /\ new.values = Append(old.values, e.value)
                 /\ new.tags.values = Append(old.tags.values, Undefined)
                 /\ new.properties = old.properties
                 /\ new.tags.properties = old.tags.properties]_vars

\* C10 witness: a property whose key is followed by a space before the "=".
C10_Witness ==
    \E f \in NodeFrames : \E j \in 1..Len(f.log) :
        /\ IsProperty(f.log[j])
        /\ input[f.log[j].at + 2].tokenType = "WhiteSpace"
        /\ input[f.log[j].at + 3].tokenType = "Equals"
        /\ f.node.values = <<>>

\* the results of the calls made so far, the call in progress included once it
\* has returned
Returned ==
    IF Done THEN Append(results, [text |-> text, output |-> output, errors |-> errors])
    ELSE results

\* C11: parse is a pure function of its text across calls on the shared lexer
\* and parser: whenever two calls in a row of calls had the same text, whatever
\* was parsed before and between them and however it ended, they returned the
\* same output and the same errors; in particular the result of a text after
\* other calls is its result as the first call.
C11_ParseIsPure ==
    \A i, j \in 1..Len(Returned) :
        Returned[i].text = Returned[j].text =>
            /\ Returned[i].output = Returned[j].output
            /\ Returned[i].errors = Returned[j].errors

\* C11 witness: a text was accepted alone, then a call failed with a parse
\* error, and the first text has been accepted again.
C11_Witness ==
    /\ Accepted
    /\ Len(results) = 2
    /\ results[1].text = text
    /\ results[2].text # text
    /\ results[2].output = Undefined
    /\ results[2].errors[1].token.tokenType # "Unknown"

\* opening minus closing braces among the first n tokens
RECURSIVE BraceDepth(_, _)
BraceDepth(toks, n) ==
    IF n = 0 THEN 0
    ELSE BraceDepth(toks, n - 1)
         + (IF toks[n].tokenType = "LeftBrace" THEN 1
            ELSE IF toks[n].tokenType = "RightBrace" THEN -1 ELSE 0)

\* every closing brace closes an opening one, and none is left open
Balanced(toks) ==
    /\ \A n \in 0..Len(toks) : BraceDepth(toks, n) >= 0
    /\ BraceDepth(toks, Len(toks)) = 0

\* the tokens consumed, end of input not counted
Consumed == IF idx < Len(input) THEN idx ELSE Len(input)

\* C12: a document is accepted only if the whole token stream is consumed up to
\* end of input with balanced braces: while the grammar runs, the children
\* blocks in progress are exactly the braces opened and not yet closed among the
\* tokens consumed; an accepted document has consumed every token and its
\* braces are balanced; and a closing brace in front of the outermost nodes
\* rule fails the parse at that brace, where end of input is expected.
C12_BalancedToEndOfInput ==
    /\ [](pc = "parse" =>
            BraceDepth(input, Consumed) =
                Cardinality({k \in 1..Len(stack) : stack[k].rule = "nodes"}) - 1)
    /\ [](Accepted => idx > Len(input) /\ Balanced(input))
    /\ [][(InNodes /\ Len(stack) = 1 /\ LA1(input, idx) = "RightBrace") =>
            /\ Fails
            /\ errors'[1].name = "MismatchedTokenException"
            /\ errors'[1].token.tokenType = "RightBrace"]_vars

\* C12 witness: after a terminated node, a closing brace at the top level has
\* failed the parse.
C12_Witness ==
    /\ Rejected
    /\ text = <<"a", ";", "}">>
    /\ errors[1].token.tokenType = "RightBrace"
    /\ errors[1].token.startOffset = 2

\* the token consumed last ends node space
AfterSpace ==
    /\ idx > 0
    /\ idx <= Len(input)
    /\ input[idx].tokenType \in {"WhiteSpace", "CloseMultiLineComment"}

\* C13: the entry loop of a node continues only after trailing space: the
\* loop's flag is true exactly when the token consumed last ends node space (for
\* a property, the space after its value); a live or commented-out entry or
\* children block is started only after node space; and without node space a
\* next token that is neither a terminator nor a closing brace fails the parse.
C13_LoopNeedsSpace ==
    /\ [](InNode => (Top(stack).hasSpace <=> AfterSpace))
    /\ [][(/\ InNode
           /\ pc' = "parse"
           /\ idx' > idx
           /\ LA1(input, idx) \in FirstNodeLoop) => AfterSpace]_vars
    /\ [][(/\ InNode
           /\ ~AfterSpace
           /\ LA1(input, idx) \notin Terminators \cup {"RightBrace"}) => Fails]_vars

\* C13 witness: a 1{} is rejected at the opening brace that follows the
\* argument without space.
C13_Witness ==
    /\ Rejected
    /\ text = <<"a", " ", "1", "{", "}">>
    /\ errors[1].token.tokenType = "LeftBrace"

\* the node's loop is at a comment marker; what the marker comments out starts
\* after optional line space
AtMarker == InNode /\ LA1(input, idx) = "BlockComment"
Marked == LA1(input, OptLineSpace(input, idx + 1).idx)

\* C14 as stated: a commented-out entry is accepted only while entries are
\* open, and a commented-out children block only while the node's children
\* block has not been consumed.
C14_Original ==
    /\ [][(AtMarker /\ Marked \in FirstPropertyOrArgument /\ Top(stack).entriesEnded)
          => Fails]_vars
    /\ [][(AtMarker /\ Marked = "LeftBrace" /\ Top(stack).childrenEnded)
          => Fails]_vars

\* C14 as amended: a commented-out entry is accepted only while entries are
\* open; a commented-out children block has no gate of its own: after node
\* space it is entered whatever the flags are, also after the live children
\* block, and the node is accepted with the children of the live block.
C14_CommentedGating ==
    /\ [][(AtMarker /\ Marked \in FirstPropertyOrArgument /\ Top(stack).entriesEnded)
          => Fails]_vars
    /\ [][(AtMarker /\ Marked \in FirstPropertyOrArgument /\ ~Top(stack).entriesEnded
              /\ Top(stack).hasSpace)
          => (Fails <=> ~propertyOrArgument(input, OptLineSpace(input, idx + 1).idx).ok)]_vars
    /\ [][(AtMarker /\ Marked = "LeftBrace" /\ Top(stack).hasSpace)
          => /\ pc' = "parse"
             /\ Len(stack') = Len(stack) + 1
             /\ Top(stack').rule = "nodes"]_vars
    /\ [](Done /\ text = <<"a", " ", "{", "b", "}", " ", "/-", "{", "}">> =>
            /\ errors = <<>>
            /\ output # Undefined
            /\ NamesOf(output.v) = <<<<"a">>>>
            /\ NamesOf(output.v[1].children) = <<<<"b">>>>)

\* C14 witness: a {b} /-{} has been accepted.
C14_Witness ==
    /\ Accepted
    /\ text = <<"a", " ", "{", "b", "}", " ", "/-", "{", "}">>

\* the nodes rule is in front of a tag that is well formed
AtNodeTag == InNodes /\ LA1(input, idx) \in FirstTag /\ tag(input, idx).ok

\* C15 as stated: a tagged node whose name follows the tag with no space
\* between them is rejected with a parse error.
C15_Original ==
    [][(AtNodeTag /\ LA1(input, tag(input, idx).idx) \in FirstString) => Fails]_vars

\* C15 as amended: the space between the closing parenthesis of a node's tag
\* and the node's name is optional: with or without it, when the name is well
\* formed (and the space after it) the node is begun with that name and that tag, and (b)a is accepted
\* as the node a tagged b.
C15_TagSpaceOptional ==
    /\ [][AtNodeTag =>
            LET t == tag(input, idx)
                n == string(input, OptNodeSpace(input, t.idx).idx)
            IN (n.ok /\ OptNodeSpace(input, n.idx).ok) =>
                    /\ pc' = "parse"
                    /\ Top(stack').rule = "node"
                    /\ Top(stack').node.name = n.val
                    /\ Top(stack').node.tags.name = t.val]_vars
    /\ [](\A sp \in {<<>>, <<" ">>} :
            (Done /\ text = <<"(", "b", ")">> \o sp \o <<"a">>) =>
                /\ errors = <<>>
                /\ output # Undefined
                /\ Len(output.v) = 1
                /\ output.v[1].name = Str(<<"a">>)
                /\ output.v[1].tags.name = Str(<<"b">>))

\* C15 witness: (b)a has been accepted.
C15_Witness ==
    /\ Accepted
    /\ text = <<"(", "b", ")", "a">>
    /\ output.v[1].tags.name = Str(<<"b">>)

\* a commented-out children block of the node below the top returns in this step
CommentedBlockReturns ==
    /\ InNodes
    /\ Len(stack) > 1
    /\ stack[Len(stack) - 1].waiting = "commented"
    /\ pc' = "parse"
    /\ Len(stack') = Len(stack) - 1

\* the node's loop is where only a commented-out children block can have
\* brought it: entries ended, children not
AfterCommentedBlock ==
    /\ InNode
    /\ Top(stack).hasSpace
    /\ Top(stack).entriesEnded
    /\ ~Top(stack).childrenEnded

\* C16: a commented-out children block closes entries but leaves the children
\* slot open: when it returns, entriesEnded is true and childrenEnded is as it
\* was; after it a live or commented-out entry fails the parse, while a live
\* children block is entered, and its nodes become node.children; the flags of
\* a node only change from false to true; and childrenEnded implies
\* entriesEnded in every reachable state.
C16_CommentedBlockClosesEntries ==
    /\ [][CommentedBlockReturns =>
            /\ Top(stack').entriesEnded
            /\ Top(stack').childrenEnded = stack[Len(stack) - 1].childrenEnded]_vars
    /\ [][(/\ AfterCommentedBlock
           /\ \/ LA1(input, idx) \in FirstPropertyOrArgument
              \/ LA1(input, idx) = "BlockComment" /\ Marked \in FirstPropertyOrArgument)
          => Fails]_vars
    /\ [][(AfterCommentedBlock /\ LA1(input, idx) = "LeftBrace") =>
            /\ pc' = "parse"
            /\ Len(stack') = Len(stack) + 1
            /\ stack'[Len(stack)].waiting = "children"]_vars
    /\ [][\A k \in 1..Len(stack) :
            (k <= Len(stack') /\ stack[k].rule = "node" /\ stack'[k].rule = "node") =>
                /\ stack[k].entriesEnded => stack'[k].entriesEnded
                /\ stack[k].childrenEnded => stack'[k].childrenEnded]_vars
    /\ [](\A f \in NodeFrames : f.childrenEnded => f.entriesEnded)
    /\ [](Done /\ text = <<"a", " ", "/-", "{", "}", " ", "{", "b", "}">> =>
            /\ errors = <<>>
            /\ output # Undefined
            /\ NamesOf(output.v[1].children) = <<<<"b">>>>)

\* C16 witness: a /-{} {b} has been accepted with b as the child of a.
C16_Witness ==
    /\ Accepted
    /\ text = <<"a", " ", "/-", "{", "}", " ", "{", "b", "}">>
    /\ NamesOf(output.v[1].children) = <<<<"b">>>>

\* a commented-out entry is consumed in this step
CommentedEntryConsumed ==
    /\ AtMarker
    /\ pc' = "parse"
    /\ Len(stack') = Len(stack)

\* C17: a commented-out entry or children block leaves the node under
\* construction unchanged: values, properties, children and tags are the same
\* before and after it; a commented-out entry changes nothing of the node's
\* rule but hasSpace and the position, a commented-out children block nothing
\* but hasSpace, entriesEnded and the position; and while the nodes of a
\* commented-out block are parsed the node stays as it is.
C17_CommentedLeavesNode ==
    /\ [][CommentedEntryConsumed =>
            /\ idx' > idx
            /\ \E h \in BOOLEAN : Top(stack') = [Top(stack) EXCEPT !.hasSpace = h]]_vars
    /\ [][CommentedBlockReturns =>
            /\ idx' > idx
            /\ \E h \in BOOLEAN :
                  Top(stack') = [stack[Len(stack) - 1] EXCEPT !.hasSpace = h,
                                                              !.entriesEnded = TRUE,
                                                              !.waiting = "none"]]_vars
    /\ [][\A k \in 1..Len(stack) :
            (/\ k <= Len(stack')
             /\ stack[k].rule = "node"
             /\ stack'[k].rule = "node"
             /\ stack[k].waiting = "commented") => stack'[k].node = stack[k].node]_vars
    /\ [](Done /\ text = <<"a", " ", "1", " ", "/-", "{", "b", "}">> =>
            /\ errors = <<>>
            /\ output # Undefined
            /\ output.v[1] = AddEntry(NewNode(Str(<<"a">>), Undefined),
                                      <<Undefined, Num(<<"1">>), Undefined, TRUE>>))

\* C17 witness: a 1 /-{b} has been accepted: one argument and no children.
C17_Witness ==
    /\ Accepted
    /\ text = <<"a", " ", "1", " ", "/-", "{", "b", "}">>
    /\ output.v[1].children = <<>>
    /\ Len(output.v[1].values) = 1

\* C18: end of input works as a node terminator without blocking the document
\* rule: a node that returns in front of end of input consumes it and end of
\* input is still the next token; the outermost nodes rule, reached after end
\* of input was consumed, returns its list as the accepted document; but in a
\* children block the nodes rule reached at end of input fails the parse,
\* because the closing brace is missing.
C18_EndOfInputTerminates ==
    /\ [][(NodeReturns /\ LA1(input, idx) = "EOF") =>
            /\ idx' = idx + 1
            /\ LATok(input, idx') = EOF]_vars
    /\ [][(InNodes /\ Len(stack) = 1 /\ idx > Len(input)) =>
            /\ pc' = "done"
            /\ errors' = <<>>
            /\ output' = Arr(Top(stack).nodes)]_vars
    /\ [][(InNodes /\ Len(stack) > 1 /\ idx >= Len(input)) =>
            /\ Fails
            /\ errors'[1].name = "MismatchedTokenException"
            /\ errors'[1].token = EOF]_vars
    /\ [](Done /\ text = <<"a">> =>
            errors = <<>> /\ output # Undefined /\ NamesOf(output.v) = <<<<"a">>>>)
    /\ [](Done /\ text = <<"a", " ", "{", "b">> =>
            output = Undefined /\ Len(errors) = 1 /\ errors[1].token = EOF)

\* C18 witness: the document a has been accepted, end of input consumed by the
\* node and by the document.
C18_Witness ==
    /\ Accepted
    /\ text = <<"a">>
    /\ idx = Len(input) + 2

\* the nesting depth of a list of nodes: 0 without children blocks that hold
\* nodes
RECURSIVE NestingDepth(_)
NestingDepth(nodes) ==
    IF nodes = <<>> THEN 0
    ELSE LET here == IF Head(nodes).children = <<>> THEN 0
                     ELSE 1 + NestingDepth(Head(nodes).children)
             rest == NestingDepth(Tail(nodes))
         IN IF here > rest THEN here ELSE rest

\* C19: parsing terminates on every finite token stream: the lexer advances
\* with every step; every step of the grammar consumes a token or returns from
\* a rule, and a step that stays in the loops (no rule returns) consumes a token
\* that is not end of input; so every parse ends, accepted or with an error;
\* and the nesting depth of an accepted document is at most the number of
\* opening braces of the input.
C19_ParseTerminates ==
    /\ [][pc = "lex" /\ pc' = "lex" => offset' > offset /\ offset' <= Len(text)]_vars
    /\ [][(pc = "parse" /\ pc' = "parse") =>
            /\ idx' > idx \/ (idx' = idx /\ Len(stack') < Len(stack))
            /\ Len(stack') >= Len(stack) => idx' <= Len(input)]_vars
    /\ <>Done
    /\ [](Done => (Accepted /\ errors = <<>>) \/ Rejected)
    /\ [](Accepted => NestingDepth(output.v) <= CountTypes(input, {"LeftBrace"}))

\* C19 witness: a document with a node in a children block has been accepted
\* after line space was consumed in the nodes rule.
C19_Witness ==
    /\ Accepted
    /\ NestingDepth(output.v) = 1
    /\ CountTypes(input, {"LeftBrace"}) = 1
    /\ CountTypes(input, {"WhiteSpace"}) >= 1

\* the levels of block comment on the mode stack
CommentDepth(ms) == Cardinality({k \in 1..Len(ms) : ms[k] = "multilineComment"})

\* the lexer is in the block comment mode in front of the lexeme c
InCommentAt(c) ==
    /\ pc = "lex"
    /\ offset < Len(text)
    /\ Top(modeStack) = "multilineComment"
    /\ text[offset + 1] = c

\* C20: block comments nest through the lexer's mode stack: in the block
\* comment mode an opener pushes one more level and a closer pops one level;
\* the levels of block comment on the stack are the openers lexed minus the
\* closers lexed, so outside strings the lexer is in the main mode exactly when
\* every opener has been matched by a closer; and the main mode stays at the
\* bottom of the stack, which is never empty.
C20_CommentsNest ==
    /\ [][InCommentAt("/*") => modeStack' = Append(modeStack, "multilineComment")]_vars
    /\ [][InCommentAt("*/") => modeStack' = Pop(modeStack)]_vars
    /\ [](CommentDepth(modeStack) =
            CountTypes(lexTokens, {"OpenMultiLineComment"})
                - CountTypes(lexTokens, {"CloseMultiLineComment"}))
    /\ [](Top(modeStack) \in {"main", "multilineComment"} =>
            (Top(modeStack) = "main" <=>
                CountTypes(lexTokens, {"OpenMultiLineComment"})
                    = CountTypes(lexTokens, {"CloseMultiLineComment"})))
    /\ [](/\ modeStack # <<>>
          /\ modeStack[1] = "main"
          /\ \A k \in 2..Len(modeStack) : modeStack[k] # "main")

\* C20 witness: after an opener, a nested opener and one closer the lexer is
\* one level deep in the block comment mode.
C20_Witness ==
    /\ text = <<"/*", "/*", "*/">>
    /\ offset = 3
    /\ modeStack = <<"main", "multilineComment">>
    /\ Len(lexTokens) = 3

====
